---- MODULE Spec2Model ----
(***************************************************************************)
(* Model of worker/core/downloader.py: MediaDownloader.download and the    *)
(* resolution of the extractor's metadata document into staged files.      *)
(*                                                                         *)
(* Strings that the code splits or globs (paths, file names, extensions,   *)
(* duration strings) are sequences of one-character strings.  A Python     *)
(* dict is a function whose DOMAIN is the set of keys present.             *)
(***************************************************************************)
EXTENDS Integers, Sequences, FiniteSets, TLC

\* ------------------------------------------------------------------ bounds
NumCalls == 2
MaxDownloads == 2

Calls == 1..NumCalls

\* ------------------------------------------------------- program constants
PLAYLIST_TYPE == "playlist"
FINAL_AUDIO_FORMAT == <<"m", "p", "3">>
FINAL_THUMBNAIL_FORMAT == <<"j", "p", "g">>

AUDIO == "AUDIO"
VIDEO == "VIDEO"
AUDIO_VIDEO == "AUDIO_VIDEO"
\* a value outside the three the match statement names
OTHER_TYPE == "OTHER"
DownMediaType == {AUDIO, VIDEO, AUDIO_VIDEO, OTHER_TYPE}

\* ----------------------------------------------------------- python values
\* Optional string / number: None is has = FALSE.
NoStr == [has |-> FALSE, v |-> <<>>]
SomeStr(s) == [has |-> TRUE, v |-> s]
NoNum == [has |-> FALSE, v |-> 0]
SomeNum(n) == [has |-> TRUE, v |-> n]

\* Duration values as the metadata carries them, and floats as num/den.
DurNone == [t |-> "none", s |-> <<>>, num |-> 0, den |-> 1]
DurStr(s) == [t |-> "str", s |-> s, num |-> 0, den |-> 1]
DurInt(n) == [t |-> "int", s |-> <<>>, num |-> n, den |-> 1]
DurFloat(n, d) == [t |-> "float", s |-> <<>>, num |-> n, den |-> d]

\* Exceptions: type and message.
NoErr == [type |-> "", msg |-> ""]
Err(t, m) == [type |-> t, msg |-> m]

\* d.get(k, default)
Get(d, k, default) == IF k \in DOMAIN d THEN d[k] ELSE default

\* d[k] = v on a dict
DictSet(d, k, v) == [x \in DOMAIN d \cup {k} |-> IF x = k THEN v ELSE d[x]]

\* ------------------------------------------------------------ str methods
\* s.rsplit(c, 1)[-1]: what follows the last c, the whole string without c.
RECURSIVE RSplitLast(_, _)
RSplitLast(s, c) ==
    IF s = <<>> THEN <<>>
    ELSE IF s[Len(s)] = c THEN <<>>
    ELSE Append(RSplitLast(SubSeq(s, 1, Len(s) - 1), c), s[Len(s)])

\* glob pattern "*.<extension>": the name ends with "." extension and is
\* not a hidden file.
GlobMatches(name, extension) ==
    /\ Len(name) >= Len(extension) + 1
    /\ name[1] # "."
    /\ SubSeq(name, Len(name) - Len(extension), Len(name)) = <<".">> \o extension

\* ---------------------------------------------------------------- float()
Digits == {"0", "1", "2", "3", "4", "5", "6", "7", "8", "9"}
DigitVal(c) ==
    CASE c = "0" -> 0 [] c = "1" -> 1 [] c = "2" -> 2 [] c = "3" -> 3
      [] c = "4" -> 4 [] c = "5" -> 5 [] c = "6" -> 6 [] c = "7" -> 7
      [] c = "8" -> 8 [] c = "9" -> 9

RECURSIVE DigitsToInt(_)
DigitsToInt(s) ==
    IF s = <<>> THEN 0
    ELSE 10 * DigitsToInt(SubSeq(s, 1, Len(s) - 1)) + DigitVal(s[Len(s)])

RECURSIVE Pow10(_)
Pow10(n) == IF n = 0 THEN 1 ELSE 10 * Pow10(n - 1)

RECURSIVE Gcd(_, _)
Gcd(a, b) == IF b = 0 THEN a ELSE Gcd(b, a % b)

Reduced(n, d) == LET g == IF n = 0 THEN d ELSE Gcd(n, d) IN DurFloat(n \div g, d \div g)

\* The decimal literals float() accepts: digits with at most one point and
\* at least one digit.
IsFloatLiteral(s) ==
    LET points == {i \in 1..Len(s) : s[i] = "."} IN
    /\ \A i \in 1..Len(s) : s[i] \in Digits \cup {"."}
    /\ Cardinality(points) <= 1
    /\ Len(s) > Cardinality(points)

ParseFloat(s) ==
    LET points == {i \in 1..Len(s) : s[i] = "."}
        digits == SelectSeq(s, LAMBDA c : c # ".")
        frac == IF points = {} THEN 0 ELSE Len(s) - (CHOOSE i \in points : TRUE)
    IN Reduced(DigitsToInt(digits), Pow10(frac))

\* float(duration): a record [raised, value]; raised names the exception
\* type, "" for none.
PyFloat(duration) ==
    CASE duration.t = "none" -> [raised |-> "TypeError", value |-> DurNone]
      [] duration.t = "int" -> [raised |-> "", value |-> DurFloat(duration.num, 1)]
      [] duration.t = "float" -> [raised |-> "", value |-> duration]
      [] duration.t = "str" ->
            IF IsFloatLiteral(duration.s)
            THEN [raised |-> "", value |-> ParseFloat(duration.s)]
            ELSE [raised |-> "ValueError", value |-> DurNone]

\* MediaDownloader._to_float: only TypeError is caught.
ToFloat(duration) ==
    LET r == PyFloat(duration) IN
    IF r.raised = "" THEN [err |-> NoErr, value |-> r.value]
    ELSE IF r.raised = "TypeError" THEN [err |-> NoErr, value |-> duration]
    ELSE [err |-> Err("ValueError", "could not convert string to float"),
          value |-> DurNone]

\* ------------------------------------------------- requested video lookup
NotFound(downloads) ==
    [err |-> NoErr, found |-> FALSE, obj |-> <<>>, downloads |-> downloads]

\* PrimaryPass with the fallback order of the path keys swapped: filename
\* is preferred to filepath.
RECURSIVE PrimaryPassFilenameFirst(_, _)
PrimaryPassFilenameFirst(downloads, i) ==
    IF i > Len(downloads) THEN NotFound(downloads)
    ELSE LET obj == downloads[i] IN
         IF Get(obj, "ext", <<>>) # FINAL_AUDIO_FORMAT
         THEN IF "_filename" \notin DOMAIN obj
              THEN [err |-> Err("KeyError", "_filename"), found |-> FALSE,
                    obj |-> <<>>, downloads |-> downloads]
              ELSE LET set == DictSet(obj, "filepath",
                                 Get(obj, "filename",
                                     Get(obj, "filepath", obj["_filename"])))
                   IN [err |-> NoErr, found |-> TRUE, obj |-> set,
                       downloads |-> [downloads EXCEPT ![i] = set]]
         ELSE PrimaryPassFilenameFirst(downloads, i + 1)

\* First loop of _get_requested_video, from index i: the first descriptor
\* whose ext is not the audio format; its filepath is set in place.
RECURSIVE PrimaryPass(_, _)
PrimaryPass(downloads, i) ==
    IF i > Len(downloads) THEN NotFound(downloads)
    ELSE LET obj == downloads[i] IN
         IF Get(obj, "ext", <<>>) # FINAL_AUDIO_FORMAT
         THEN IF "_filename" \notin DOMAIN obj
              THEN [err |-> Err("KeyError", "_filename"), found |-> FALSE,
                    obj |-> <<>>, downloads |-> downloads]
              ELSE LET set == DictSet(obj, "filepath",
                                 Get(obj, "filepath",
                                     Get(obj, "filename", obj["_filename"])))
                   IN [err |-> NoErr, found |-> TRUE, obj |-> set,
                       downloads |-> [downloads EXCEPT ![i] = set]]
         ELSE PrimaryPass(downloads, i + 1)

\* Second loop, from index i: the first descriptor whose ext differs from
\* the extension of its _filename; a copy is returned.
RECURSIVE FallbackPass(_, _)
FallbackPass(downloads, i) ==
    IF i > Len(downloads) THEN NotFound(downloads)
    ELSE LET obj == downloads[i]
             raise(k) == [err |-> Err("KeyError", k), found |-> FALSE,
                          obj |-> <<>>, downloads |-> downloads]
         IN
         IF "ext" \notin DOMAIN obj THEN raise("ext")
         ELSE IF "_filename" \notin DOMAIN obj THEN raise("_filename")
         ELSE IF obj["ext"] # RSplitLast(obj["_filename"], ".")
         THEN \* the log call reads download_obj_copy['filepath']
              IF "filepath" \notin DOMAIN obj THEN raise("filepath")
              ELSE [err |-> NoErr, found |-> TRUE,
                    obj |-> DictSet(obj, "filepath",
                                    Get(obj, "filename", obj["_filename"])),
                    downloads |-> downloads]
         ELSE FallbackPass(downloads, i + 1)

GetRequestedVideo(requested_downloads) ==
    LET first == PrimaryPass(requested_downloads, 1) IN
    IF first.found \/ first.err # NoErr THEN first
    ELSE FallbackPass(requested_downloads, 1)

IsPlaylist(meta) == meta["_type"] = PLAYLIST_TYPE

\* The document with the (possibly modified) descriptor list put back where
\* it was read from.
WithDownloads(meta, downloads) ==
    IF IsPlaylist(meta)
    THEN [meta EXCEPT !["entries"] =
            [@ EXCEPT ![1] = [@ EXCEPT !["requested_downloads"] = downloads]]]
    ELSE [meta EXCEPT !["requested_downloads"] = downloads]

GetVideoFilepath(meta) ==
    IF IsPlaylist(meta) /\ Len(meta["entries"]) = 0
    THEN [err |-> Err("IndexError", "list index out of range"),
          path |-> <<>>, meta |-> meta]
    ELSE LET requested_downloads ==
                 IF IsPlaylist(meta)
                 THEN meta["entries"][1]["requested_downloads"]
                 ELSE meta["requested_downloads"]
             requested_video == GetRequestedVideo(requested_downloads)
             after == WithDownloads(meta, requested_video.downloads)
         IN
         IF requested_video.err # NoErr
         THEN [err |-> requested_video.err, path |-> <<>>, meta |-> after]
         ELSE IF ~requested_video.found
         \* None['filepath'] is a TypeError, which the except clause
         \* (AttributeError, KeyError) does not name.
         THEN [err |-> Err("TypeError", "'NoneType' object is not subscriptable"),
               path |-> <<>>, meta |-> after]
         ELSE IF "filepath" \notin DOMAIN requested_video.obj
         THEN [err |-> Err("ValueError", "Video filepath not found"),
               path |-> <<>>, meta |-> after]
         ELSE [err |-> NoErr, path |-> requested_video.obj["filepath"],
               meta |-> after]

GetVideoFilename(meta) ==
    LET r == GetVideoFilepath(meta) IN
    [err |-> r.err, name |-> RSplitLast(r.path, "/"), meta |-> r.meta]

Opt(d, k) == IF k \in DOMAIN d THEN SomeNum(d[k]) ELSE NoNum

GetVideoContext(meta) ==
    LET fail(e, m) == [err |-> e, duration |-> DurNone, width |-> NoNum,
                       height |-> NoNum, meta |-> m]
    IN
    IF IsPlaylist(meta) /\ Len(meta["entries"]) = 0
    THEN fail(Err("ValueError",
                  "Item said to be downloaded but no entries to process."), meta)
    ELSE LET entry == IF IsPlaylist(meta) THEN meta["entries"][1] ELSE meta
             requested_video == GetRequestedVideo(entry["requested_downloads"])
             after == WithDownloads(meta, requested_video.downloads)
             duration == ToFloat(Get(entry, "duration", DurNone))
         IN
         IF requested_video.err # NoErr THEN fail(requested_video.err, after)
         ELSE IF duration.err # NoErr THEN fail(duration.err, after)
         ELSE IF ~requested_video.found
         THEN fail(Err("AttributeError", "'NoneType' object has no attribute 'get'"),
                   after)
         ELSE [err |-> NoErr, duration |-> duration.value,
               width |-> Opt(requested_video.obj, "width"),
               height |-> Opt(requested_video.obj, "height"),
               meta |-> after]

\* -------------------------------------------------------------- the DTOs
\* Audio and Video without file_size and thumb_path: the size is measured
\* by a helper on the staged file, the thumbnail path is destination_dir
\* joined with thumb_name.
NoAudio ==
    [present |-> FALSE, title |-> "", original_filename |-> <<>>,
     duration |-> DurNone, directory_path |-> ""]
NoVideo ==
    [present |-> FALSE, title |-> "", original_filename |-> <<>>,
     custom_filename |-> NoStr, duration |-> DurNone, width |-> NoNum,
     height |-> NoNum, directory_path |-> "", thumb_name |-> NoStr]

\* ------------------------------------------------------------ file moves
\* A staged file remembers the call that relocated it.
StagedFile(name, owner) == [name |-> name, owner |-> owner]
FileNames(files) == {f.name : f \in files}

\* shutil.move(src, dest_path) onto a file path: rename replaces a file
\* already at that path.
MoveOnto(dest, name, owner) ==
    {f \in dest : f.name # name} \cup {StagedFile(name, owner)}

\* _find_downloaded_file: the first name glob yields, None without a match;
\* the order of a directory listing is not defined, so any match can be first.
FindDownloadedFile(files, extension) ==
    LET matches == {f \in files : GlobMatches(f, extension)} IN
    IF matches = {} THEN {NoStr} ELSE {SomeStr(f) : f \in matches}

\* _create_audio_dto: the outcomes, one per file the glob may yield first.
\* scratch: names in curr_tmp_dir; dest: files in destination_dir.
CreateAudioDto(meta, scratch, dest, dirname, owner) ==
    LET fail(e, sc, de) == [err |-> e, dto |-> NoAudio, scratch |-> sc,
                            dest |-> de, meta |-> meta]
        build(audio_filename) ==
            IF ~audio_filename.has
            THEN fail(Err("TypeError", "unsupported operand type(s) for /"),
                      scratch, dest)
            ELSE IF audio_filename.v \in FileNames(dest)
            THEN fail(Err("shutil.Error", "Destination path already exists"),
                      scratch, dest)
            ELSE LET sc == scratch \ {audio_filename.v}
                     de == dest \cup {StagedFile(audio_filename.v, owner)}
                 IN IF "title" \notin DOMAIN meta
                    THEN fail(Err("KeyError", "title"), sc, de)
                    ELSE [err |-> NoErr,
                          dto |-> [present |-> TRUE, title |-> meta["title"],
                                   original_filename |-> audio_filename.v,
                                   duration |-> DurNone,
                                   directory_path |-> dirname],
                          scratch |-> sc, dest |-> de, meta |-> meta]
    IN {build(a) : a \in FindDownloadedFile(scratch, FINAL_AUDIO_FORMAT)}

\* if custom_video_filename: None and '' are both false
Truthy(custom) == custom.has /\ custom.v # <<>>

\* _create_video_dto: the outcomes, one per thumbnail the glob may yield.
CreateVideoDto(meta, scratch, dest, dirname, custom_video_filename, owner) ==
    LET fail(e, sc, de, m) == [err |-> e, dto |-> NoVideo, scratch |-> sc,
                               dest |-> de, meta |-> m]
        fn == GetVideoFilename(meta)
        video_filename == fn.name
        dest_name == IF Truthy(custom_video_filename)
                     THEN custom_video_filename.v ELSE video_filename
        sc1 == scratch \ {video_filename}
        de1 == MoveOnto(dest, dest_name, owner)
        rest(thumb_name) ==
            IF thumb_name.has /\ thumb_name.v \in FileNames(de1)
            THEN fail(Err("shutil.Error", "Destination path already exists"),
                      sc1, de1, fn.meta)
            ELSE LET sc2 == IF thumb_name.has THEN sc1 \ {thumb_name.v} ELSE sc1
                     de2 == IF thumb_name.has
                            THEN de1 \cup {StagedFile(thumb_name.v, owner)}
                            ELSE de1
                     ctx == GetVideoContext(fn.meta)
                 IN IF ctx.err # NoErr THEN fail(ctx.err, sc2, de2, ctx.meta)
                    ELSE IF "title" \notin DOMAIN meta
                    THEN fail(Err("KeyError", "title"), sc2, de2, ctx.meta)
                    ELSE [err |-> NoErr,
                          dto |-> [present |-> TRUE, title |-> meta["title"],
                                   original_filename |-> video_filename,
                                   custom_filename |-> custom_video_filename,
                                   duration |-> ctx.duration,
                                   width |-> ctx.width, height |-> ctx.height,
                                   directory_path |-> dirname,
                                   thumb_name |-> thumb_name],
                          scratch |-> sc2, dest |-> de2, meta |-> ctx.meta]
    IN IF fn.err # NoErr THEN {fail(fn.err, scratch, dest, fn.meta)}
       ELSE IF video_filename \notin scratch
       THEN {fail(Err("FileNotFoundError", "No such file or directory"),
                  scratch, dest, fn.meta)}
       ELSE {rest(t) : t \in FindDownloadedFile(sc1, FINAL_THUMBNAIL_FORMAT)}

\* ------------------------------------------------------------------ inputs
Str_v_mp4 == <<"v", ".", "m", "p", "4">>
Str_w_mp4 == <<"w", ".", "m", "p", "4">>
Str_v_mp3 == <<"v", ".", "m", "p", "3">>
Str_a_mp3 == <<"a", ".", "m", "p", "3">>
Str_b_mp3 == <<"b", ".", "m", "p", "3">>
Str_t_jpg == <<"t", ".", "j", "p", "g">>
Str_mp4 == <<"m", "p", "4">>
InTmp(name) == <<"s", "/">> \o name

\* Requested-download descriptors: separate video, video without filepath,
\* bare descriptor, plain audio, and video converted to audio but kept
\* (with and without filepath).
DescVideo ==
    [ext |-> Str_mp4, _filename |-> InTmp(Str_v_mp4),
     filepath |-> InTmp(Str_v_mp4), filename |-> InTmp(Str_w_mp4),
     width |-> 640, height |-> 360]
DescVideoFilename ==
    [ext |-> Str_mp4, _filename |-> InTmp(Str_v_mp4),
     filename |-> InTmp(Str_w_mp4)]
DescBare == [_filename |-> InTmp(Str_v_mp4)]
DescAudio ==
    [ext |-> FINAL_AUDIO_FORMAT, _filename |-> InTmp(Str_a_mp3),
     filepath |-> InTmp(Str_a_mp3)]
DescKept ==
    [ext |-> FINAL_AUDIO_FORMAT, _filename |-> InTmp(Str_v_mp4),
     filepath |-> InTmp(Str_v_mp3), width |-> 1280]
DescKeptNoFilepath ==
    [ext |-> FINAL_AUDIO_FORMAT, _filename |-> InTmp(Str_v_mp4),
     filename |-> InTmp(Str_w_mp4)]
Descriptors ==
    {DescVideo, DescVideoFilename, DescBare, DescAudio, DescKept,
     DescKeptNoFilepath}

RequestedDownloads ==
    UNION {[1..n -> Descriptors] : n \in 0..MaxDownloads}

Durations ==
    {DurNone, DurStr(<<"1", "2", ".", "5">>), DurInt(7), DurStr(<<"b", "a", "d">>)}

Item(downloads, duration) ==
    [_type |-> "video", title |-> "item", duration |-> duration,
     requested_downloads |-> downloads]
Playlist(entries) ==
    [_type |-> PLAYLIST_TYPE, title |-> "list", entries |-> entries]

Items == {Item(r, d) : r \in RequestedDownloads, d \in Durations}
Playlists == {Playlist(<<>>)} \cup {Playlist(<<e>>) : e \in Items}
Documents == Items \cup Playlists

\* extract_info returned None
NoMeta == [none |-> TRUE]

\* What the scratch directory holds after extraction.
FileSets ==
    {{}, {Str_v_mp4}, {Str_v_mp4, Str_a_mp3, Str_t_jpg},
     {Str_w_mp4, Str_a_mp3, Str_b_mp3}}

\* What extraction of the url does: raise, return no metadata, or return a
\* document and leave files in the scratch directory.
Remote(raises, meta, files) == [raises |-> raises, meta |-> meta, files |-> files]
Remotes ==
    {Remote(TRUE, NoMeta, {}), Remote(FALSE, NoMeta, {})}
      \cup {Remote(FALSE, m, f) : m \in Documents, f \in FileSets}

CustomFilenames == {NoStr, SomeStr(Str_t_jpg)}
Payloads ==
    {[download_media_type |-> t, custom_filename |-> c] :
        t \in DownMediaType, c \in CustomFilenames}

\* gen_random_str: the names it can return
DirNames == {"aaaa", "bbbb"}

\* ------------------------------------------------------------------- state
VARIABLES
    pc,              \* where each call is
    media_payload,   \* the request of each call
    remote,          \* what the url of each call yields
    tmp_dir,         \* the TemporaryDirectory of each call
    meta,            \* the metadata document each call holds
    destination_dir, \* the name each call generated
    made_dir,        \* whether the call's mkdir succeeded
    staging,         \* the directories under TMP_DOWNLOADED_DIR
    audio, video,    \* the DTOs built
    err              \* the exception in flight, then propagated

vars == <<pc, media_payload, remote, tmp_dir, meta, destination_dir, made_dir,
          staging, audio, video, err>>

NoDir == [exists |-> FALSE, files |-> {}]

\* The state before any call has started; the calls not in active never run.
InitState(active) ==
    /\ pc = [p \in Calls |-> IF p \in active THEN "start" ELSE "idle"]
    /\ tmp_dir = [p \in Calls |-> NoDir]
    /\ meta = [p \in Calls |-> NoMeta]
    /\ destination_dir = [p \in Calls |-> ""]
    /\ made_dir = [p \in Calls |-> FALSE]
    /\ staging = [n \in DirNames |-> NoDir]
    /\ audio = [p \in Calls |-> NoAudio]
    /\ video = [p \in Calls |-> NoVideo]
    /\ err = [p \in Calls |-> NoErr]

InitCalls(active, payloads, remotes) ==
    /\ \E f \in [active -> payloads] :
          media_payload = [p \in Calls |->
              IF p \in active THEN f[p] ELSE CHOOSE x \in payloads : TRUE]
    /\ \E f \in [active -> remotes] :
          remote = [p \in Calls |->
              IF p \in active THEN f[p] ELSE CHOOSE x \in remotes : TRUE]
    /\ InitState(active)

\* One download call on its own.
Init == InitCalls({1}, Payloads, Remotes)

\* Every call running at once, each on one of two urls: one resolves, the
\* other has no video descriptor and fails after its audio was relocated.
ConcPayloads ==
    {[download_media_type |-> t, custom_filename |-> NoStr] :
        t \in {AUDIO_VIDEO, OTHER_TYPE}}
ConcRemotes ==
    {Remote(FALSE, Item(r, DurInt(7)), {Str_v_mp4, Str_a_mp3, Str_t_jpg}) :
        r \in {<<DescVideo, DescAudio>>, <<DescAudio>>}}
InitConc == InitCalls(Calls, ConcPayloads, ConcRemotes)

\* Two calls with the same request and the same files: call 1 gets a
\* playlist of one entry, call 2 the single-item document that entry is.
OneMatchEach(files) ==
    /\ Cardinality(FindDownloadedFile(files, FINAL_AUDIO_FORMAT)) = 1
    /\ Cardinality(FindDownloadedFile(files, FINAL_THUMBNAIL_FORMAT)) = 1
InitPair ==
    /\ \E t \in DownMediaType :
          media_payload = [p \in Calls |->
              [download_media_type |-> t, custom_filename |-> NoStr]]
    /\ \E entry \in Items, files \in {f \in FileSets : f # {} /\ OneMatchEach(f)} :
          remote = [p \in Calls |->
              IF p = 1 THEN Remote(FALSE, Playlist(<<entry>>), files)
              ELSE Remote(FALSE, entry, files)]
    /\ InitState({1, 2})

\* --------------------------------------------------------------- _download
Raise(p, e) ==
    /\ err' = [err EXCEPT ![p] = e]
    /\ pc' = [pc EXCEPT ![p] = "exit"]

\* with TemporaryDirectory(...) as tmp_dir
EnterTmpDir(p) ==
    /\ pc[p] = "start"
    /\ tmp_dir' = [tmp_dir EXCEPT ![p] = [exists |-> TRUE, files |-> {}]]
    /\ pc' = [pc EXCEPT ![p] = "config"]
    /\ UNCHANGED <<media_payload, remote, meta, destination_dir, made_dir,
                   staging, audio, video, err>>

\* host_conf.build_config: returns or raises
BuildConfig(p) ==
    /\ pc[p] = "config"
    /\ \/ pc' = [pc EXCEPT ![p] = "extract"] /\ UNCHANGED err
       \/ Raise(p, Err("Exception", "build_config"))
    /\ UNCHANGED <<media_payload, remote, tmp_dir, meta, destination_dir,
                   made_dir, staging, audio, video>>

\* ytdl.extract_info and the two checks after it
ExtractInfo(p) ==
    /\ pc[p] = "extract"
    /\ IF remote[p].raises
       THEN /\ Raise(p, Err("DownloadError", "extract_info"))
            /\ UNCHANGED <<tmp_dir, meta>>
       ELSE /\ tmp_dir' = [tmp_dir EXCEPT ![p].files = remote[p].files]
            /\ meta' = [meta EXCEPT ![p] = remote[p].meta]
            /\ IF remote[p].meta = NoMeta
               THEN Raise(p, Err("MediaDownloaderError",
                                 "Error during media download. Check logs."))
               ELSE IF remote[p].files = {}
               THEN Raise(p, Err("MediaDownloaderError",
                                 "Nothing downloaded. Is URL valid?"))
               ELSE pc' = [pc EXCEPT ![p] = "mkdir"] /\ UNCHANGED err
    /\ UNCHANGED <<media_payload, remote, destination_dir, made_dir, staging,
                   audio, video>>

\* Mkdir as mkdir(exist_ok=True): an existing directory is taken as is.
MkdirExistOk(dirs, name) ==
    [err |-> NoErr,
     dirs |-> [dirs EXCEPT ![name] = [exists |-> TRUE, files |-> @.files]]]

\* Path.mkdir(): FileExistsError when the path exists
Mkdir(dirs, name) ==
    IF dirs[name].exists
    THEN [err |-> Err("FileExistsError", "File exists"), dirs |-> dirs]
    ELSE [err |-> NoErr,
          dirs |-> [dirs EXCEPT ![name] = [exists |-> TRUE, files |-> {}]]]

\* destination_dir = ... / gen_random_str(...); destination_dir.mkdir()
MakeDestinationDir(p) ==
    /\ pc[p] = "mkdir"
    /\ \E name \in DirNames :
          LET r == Mkdir(staging, name) IN
          /\ destination_dir' = [destination_dir EXCEPT ![p] = name]
          /\ staging' = r.dirs
          /\ IF r.err # NoErr
             THEN Raise(p, r.err) /\ UNCHANGED made_dir
             ELSE /\ made_dir' = [made_dir EXCEPT ![p] = TRUE]
                  /\ pc' = [pc EXCEPT ![p] = "dtos"]
                  /\ UNCHANGED err
    /\ UNCHANGED <<media_payload, remote, tmp_dir, meta, audio, video>>

\* ------------------------------------------------------ _create_media_dtos
\* What a DTO builder did to the files and the document.
Relocated(p, r) ==
    /\ tmp_dir' = [tmp_dir EXCEPT ![p].files = r.scratch]
    /\ staging' = [staging EXCEPT ![destination_dir[p]].files = r.dest]
    /\ meta' = [meta EXCEPT ![p] = r.meta]

\* Caught without the except clause: the exception leaves create_dto as it
\* came, nothing is removed.
CaughtWithoutRemove(p, e) ==
    /\ err' = [err EXCEPT ![p] = e]
    /\ pc' = [pc EXCEPT ![p] = "exit"]

\* create_dto: the except clause is entered with the exception in flight
Caught(p, e) ==
    /\ err' = [err EXCEPT ![p] = e]
    /\ pc' = [pc EXCEPT ![p] = "rollback"]

\* get_audio(), for AUDIO and first for AUDIO_VIDEO
GetAudio(p) ==
    /\ pc[p] = "dtos"
    /\ media_payload[p].download_media_type \in {AUDIO, AUDIO_VIDEO}
    /\ \E r \in CreateAudioDto(meta[p], tmp_dir[p].files,
                               staging[destination_dir[p]].files,
                               destination_dir[p], p) :
          /\ Relocated(p, r)
          /\ audio' = [audio EXCEPT ![p] = r.dto]
          /\ IF r.err # NoErr THEN Caught(p, r.err)
             ELSE /\ UNCHANGED err
                  /\ pc' = [pc EXCEPT ![p] =
                        IF media_payload[p].download_media_type = AUDIO
                        THEN "exit" ELSE "video"]
    /\ UNCHANGED <<media_payload, remote, destination_dir, made_dir, video>>

\* get_video(), for VIDEO and second for AUDIO_VIDEO
GetVideo(p) ==
    /\ \/ pc[p] = "dtos" /\ media_payload[p].download_media_type = VIDEO
       \/ pc[p] = "video"
    /\ \E r \in CreateVideoDto(meta[p], tmp_dir[p].files,
                               staging[destination_dir[p]].files,
                               destination_dir[p],
                               media_payload[p].custom_filename, p) :
          /\ Relocated(p, r)
          /\ video' = [video EXCEPT ![p] = r.dto]
          /\ IF r.err # NoErr THEN Caught(p, r.err)
             ELSE pc' = [pc EXCEPT ![p] = "exit"] /\ UNCHANGED err
    /\ UNCHANGED <<media_payload, remote, destination_dir, made_dir, audio>>

\* case _: raise RuntimeError, outside create_dto
UnknownMediaType(p) ==
    /\ pc[p] = "dtos"
    /\ media_payload[p].download_media_type \notin {AUDIO, VIDEO, AUDIO_VIDEO}
    /\ Raise(p, Err("RuntimeError", "Unknown media type"))
    /\ UNCHANGED <<media_payload, remote, tmp_dir, meta, destination_dir,
                   made_dir, staging, audio, video>>

\* remove_dir (yt_shared.utils.file): recursive removal of the directory
RemoveDir(dirs, name) == [dirs EXCEPT ![name] = NoDir]

\* except Exception: remove_dir(destination_dir); raise
Rollback(p) ==
    /\ pc[p] = "rollback"
    /\ staging' = RemoveDir(staging, destination_dir[p])
    /\ pc' = [pc EXCEPT ![p] = "exit"]
    /\ UNCHANGED <<media_payload, remote, tmp_dir, meta, destination_dir,
                   made_dir, audio, video, err>>

\* ExitTmpDir with the cleanup on the normal path only.
ExitTmpDirOnReturnOnly(p) ==
    /\ pc[p] = "exit"
    /\ tmp_dir' = [tmp_dir EXCEPT ![p] = IF err[p] = NoErr THEN [exists |-> FALSE, files |-> {}] ELSE @]
    /\ pc' = [pc EXCEPT ![p] = IF err[p] = NoErr THEN "returned" ELSE "raised"]
    /\ UNCHANGED <<media_payload, remote, meta, destination_dir, made_dir,
                   staging, audio, video, err>>

\* TemporaryDirectory.__exit__, then download returns the DownMedia or
\* re-raises
ExitTmpDir(p) ==
    /\ pc[p] = "exit"
    /\ tmp_dir' = [tmp_dir EXCEPT ![p] = NoDir]
    /\ pc' = [pc EXCEPT ![p] = IF err[p] = NoErr THEN "returned" ELSE "raised"]
    /\ UNCHANGED <<media_payload, remote, meta, destination_dir, made_dir,
                   staging, audio, video, err>>

Next ==
    \E p \in Calls :
        \/ EnterTmpDir(p)
        \/ BuildConfig(p)
        \/ ExtractInfo(p)
        \/ MakeDestinationDir(p)
        \/ GetAudio(p)
        \/ GetVideo(p)
        \/ UnknownMediaType(p)
        \/ Rollback(p)
        \/ ExitTmpDir(p)

Spec == Init /\ [][Next]_vars
SpecConc == InitConc /\ [][Next]_vars
SpecPair == InitPair /\ [][Next]_vars

TypeOK ==
    /\ pc \in [Calls -> {"idle", "start", "config", "extract", "mkdir", "dtos",
                         "video", "rollback", "exit", "returned", "raised"}]
    /\ \A p \in Calls : media_payload[p] \in Payloads
    /\ \A p \in Calls : destination_dir[p] \in DirNames \cup {""}

\* ------------------------------------------------------------------ claims
Finished(p) == pc[p] \in {"returned", "raised"}
MediaType(p) == media_payload[p].download_media_type

\* The document extraction handed to the call, and the descriptor list the
\* video lookup reads in it.
Extracted(p) == remote[p].meta
HasDownloads(doc) ==
    IF doc = NoMeta THEN FALSE
    ELSE IF IsPlaylist(doc) THEN Len(doc["entries"]) > 0 ELSE TRUE
DownloadsOf(doc) ==
    IF IsPlaylist(doc) THEN doc["entries"][1]["requested_downloads"]
    ELSE doc["requested_downloads"]

\* The call got as far as _create_media_dtos and the error, if any, is one
\* raised in there.
Resolving(p) ==
    /\ made_dir[p]
    /\ pc[p] \in {"rollback", "exit", "returned", "raised"}

\* C1: whenever an error raised during resolution (after the staging
\* directory was created) has propagated out of download, the staging
\* directory no longer exists and the error is the one that was raised.
C1_StagingGoneWhenResolutionRaises ==
    \A p \in Calls :
        (pc[p] = "raised" /\ made_dir[p])
            => /\ ~staging[destination_dir[p]].exists
               /\ err[p] # NoErr

\* C2: the scratch directory exists from its creation until the call leaves
\* the with block, resolution and rollback included, and is gone once the
\* call has returned or raised.
C2_ScratchReleasedOnEveryExit ==
    \A p \in Calls :
        /\ Finished(p) => ~tmp_dir[p].exists
        /\ pc[p] \in {"config", "extract", "mkdir", "dtos", "video",
                      "rollback", "exit"} => tmp_dir[p].exists

\* C2 witness: a call that failed in resolution after relocating a file has
\* raised, and its scratch directory is gone.
C2_Witness ==
    \E p \in Calls :
        /\ pc[p] = "raised" /\ made_dir[p] /\ audio[p].present
        /\ ~tmp_dir[p].exists

\* C3: an AUDIO_VIDEO call whose audio was built and whose video build then
\* failed raises with no staging directory and no file left in it.
C3_AudioVideoFullRollback ==
    \A p \in Calls :
        (/\ MediaType(p) = AUDIO_VIDEO
         /\ pc[p] \in {"exit", "raised"}
         /\ audio[p].present /\ ~video[p].present)
            => /\ err[p] # NoErr
               /\ staging[destination_dir[p]] = NoDir

\* C3 witness: such a call has raised after its audio file had been staged.
C3_Witness ==
    \E p \in Calls :
        /\ MediaType(p) = AUDIO_VIDEO /\ pc[p] = "raised"
        /\ audio[p].present /\ ~video[p].present
        /\ audio[p].original_filename \notin tmp_dir[p].files
        /\ staging[destination_dir[p]] = NoDir

\* Neither pass of _get_requested_video yields a descriptor.
NeitherPassYields(downloads) ==
    LET r == GetRequestedVideo(downloads) IN r.err = NoErr /\ ~r.found

\* C4: a VIDEO call whose document has no descriptor either pass selects
\* fails with ValueError "Video filepath not found" and has never created a
\* staging directory.
C4_UnresolvedVideoIsValueErrorWithoutStaging ==
    \A p \in Calls :
        (/\ MediaType(p) = VIDEO
         /\ pc[p] = "raised"
         /\ err[p].type \notin {"Exception", "DownloadError",
                                "MediaDownloaderError", "FileExistsError"}
         /\ HasDownloads(Extracted(p))
         /\ NeitherPassYields(DownloadsOf(Extracted(p))))
            => /\ err[p] = Err("ValueError", "Video filepath not found")
               /\ ~made_dir[p]

\* C5: a call, of any media type, that resolves a playlist document with no
\* entries ends with the ValueError for 'no entries to process'.
C5_EmptyPlaylistIsDataIntegrityError ==
    \A p \in Calls :
        (/\ Finished(p) /\ Resolving(p)
         /\ MediaType(p) \in {AUDIO, VIDEO, AUDIO_VIDEO}
         /\ IsPlaylist(Extracted(p))
         /\ Len(Extracted(p)["entries"]) = 0)
            => err[p] = Err("ValueError",
                   "Item said to be downloaded but no entries to process.")

\* The duration the video context reads.
DurationOf(doc) ==
    Get(IF IsPlaylist(doc) THEN doc["entries"][1] ELSE doc, "duration", DurNone)

\* What the claim says coercion returns.
Coerced(duration) ==
    CASE duration.t = "none" -> DurNone
      [] duration.t = "int" -> DurFloat(duration.num, 1)
      [] duration.t = "float" -> duration
      [] duration.t = "str" ->
            IF IsFloatLiteral(duration.s) THEN ParseFloat(duration.s)
            ELSE duration

\* C6: duration coercion never raises, and a video that was built carries
\* the float of a numeric duration, None for None, and a non-numeric string
\* unchanged.
C6_ToFloatNeverRaises ==
    \A p \in Calls :
        /\ err[p] # Err("ValueError", "could not convert string to float")
        /\ video[p].present
              => video[p].duration = Coerced(DurationOf(Extracted(p)))

\* C7: a call on a playlist of one entry and a call on the single-item
\* document that entry is, with the same request and files, end the same
\* way: same error, same audio and video fields (the directory apart).
SameButDirectory(a, b) == [a EXCEPT !["directory_path"] = ""] = [b EXCEPT !["directory_path"] = ""]
C7_SingleEntryPlaylistAsItem ==
    (/\ Finished(1) /\ Finished(2)
     /\ Resolving(1) /\ Resolving(2)
     /\ IsPlaylist(Extracted(1))
     /\ Len(Extracted(1)["entries"]) = 1
     /\ Extracted(2) = Extracted(1)["entries"][1]
     /\ remote[1].files = remote[2].files
     /\ media_payload[1] = media_payload[2])
        => /\ pc[1] = pc[2]
           /\ err[1] = err[2]
           /\ SameButDirectory(audio[1], audio[2])
           /\ SameButDirectory(video[1], video[2])

\* No descriptor passes the primary test, some descriptor passes the
\* fallback test.
FallbackCase(downloads) ==
    /\ \A i \in 1..Len(downloads) :
          Get(downloads[i], "ext", <<>>) = FINAL_AUDIO_FORMAT
    /\ \E i \in 1..Len(downloads) :
          downloads[i]["ext"] # RSplitLast(downloads[i]["_filename"], ".")

\* C8: in the fallback case a VIDEO call's lookup yields a descriptor (no
\* KeyError, no "not found") and the document is as extraction returned it.
C8_FallbackSelectsCopy ==
    \A p \in Calls :
        (/\ MediaType(p) = VIDEO
         /\ Finished(p) /\ Resolving(p)
         /\ HasDownloads(Extracted(p))
         /\ FallbackCase(DownloadsOf(Extracted(p))))
            => /\ err[p].type \notin {"KeyError", "TypeError", "ValueError"}
               /\ meta[p] = Extracted(p)

\* The first descriptor whose ext is not the audio format, and the path the
\* claim names for it.
HasNonAudio(downloads) ==
    \E i \in 1..Len(downloads) :
        Get(downloads[i], "ext", <<>>) # FINAL_AUDIO_FORMAT
FirstNonAudioIndex(downloads) ==
    CHOOSE i \in 1..Len(downloads) :
        /\ Get(downloads[i], "ext", <<>>) # FINAL_AUDIO_FORMAT
        /\ \A j \in 1..(i - 1) :
              Get(downloads[j], "ext", <<>>) = FINAL_AUDIO_FORMAT
NormalizedFilepath(obj) ==
    IF "filepath" \in DOMAIN obj THEN obj["filepath"]
    ELSE IF "filename" \in DOMAIN obj THEN obj["filename"]
    ELSE obj["_filename"]

\* C9: a VIDEO call on a single-item document with a non-audio descriptor,
\* once resolution has run, has normalized the filepath of the first such
\* descriptor and of no other; the video it returns is named after the last
\* segment of that filepath and takes its width from that descriptor.
C9_PrimaryPassFilename ==
    \A p \in Calls :
        (/\ MediaType(p) = VIDEO
         /\ Finished(p) /\ Resolving(p)
         /\ ~IsPlaylist(Extracted(p))
         /\ HasNonAudio(DownloadsOf(Extracted(p))))
            => LET downloads == DownloadsOf(Extracted(p))
                   i == FirstNonAudioIndex(downloads)
                   path == NormalizedFilepath(downloads[i])
               IN
               /\ DownloadsOf(meta[p]) =
                     [downloads EXCEPT ![i] = DictSet(@, "filepath", path)]
               /\ pc[p] = "returned" =>
                     /\ video[p].present
                     /\ video[p].original_filename = RSplitLast(path, "/")
                     /\ video[p].width = Opt(downloads[i], "width")

\* C9 witness: the video was returned from a list of two non-audio
\* descriptors with different paths, the first without a filepath.
C9_Witness ==
    \E p \in Calls :
        /\ MediaType(p) = VIDEO /\ pc[p] = "returned"
        /\ ~IsPlaylist(Extracted(p))
        /\ DownloadsOf(Extracted(p)) = <<DescVideoFilename, DescVideo>>
        /\ video[p].original_filename = Str_w_mp4

\* A call holds its staging directory from its mkdir until its rollback,
\* and for good once it returned.
Holds(p) ==
    /\ made_dir[p]
    /\ \/ pc[p] \in {"dtos", "video", "rollback"}
       \/ pc[p] \in {"exit", "returned"} /\ err[p] = NoErr

\* C10: no two calls hold the same staging directory, and a directory a
\* call holds exists and contains only files that call relocated.
C10_NoSharedStagingPath ==
    /\ \A p, q \in Calls :
          (p # q /\ Holds(p) /\ Holds(q))
              => destination_dir[p] # destination_dir[q]
    /\ \A p \in Calls :
          Holds(p) => /\ staging[destination_dir[p]].exists
                      /\ \A f \in staging[destination_dir[p]].files : f.owner = p

\* C10 witness: a call holds a directory with files in it while another
\* call that generated the same name has raised.
C10_Witness ==
    \E p, q \in Calls :
        /\ p # q
        /\ Holds(p) /\ staging[destination_dir[p]].files # {}
        /\ pc[q] = "raised" /\ destination_dir[q] = destination_dir[p]

====
